---- MODULE Spec2Model ----
(***************************************************************************)
(* Model of uniscrape: the URL scraper (Scraper.start_scraper), the local  *)
(* PDF scraper (Pdf.start_scraper_pdf), the document classifier            *)
(* (classify_document) and the institution extractor                       *)
(* (Pdf._get_institution_name_from_pdf).                                   *)
(***************************************************************************)
EXTENDS Integers, Sequences, FiniteSets, TLC

(***************************************************************************)
(* Bounds of the model.                                                    *)
(***************************************************************************)
\* a batch (the URL frame, or the folder listing) holds at most MaxItems items
MaxItems == 2
\* a URL given to classify_document holds at most MaxUrlWords words
MaxUrlWords == 2

\* ConfigManager.__init__: minimum_text_length: int = 100
min_text_len == 100

\* Provenances: the URLs a frame can hold and the names a folder can list.
Urls == {"page", "doc.pdf"}
Files == {"notes.txt", "a.pdf", "b.pdf"}
Prov == Urls \cup Files

\* url.endswith('pdf') / pdf_name.endswith(".pdf")
EndsWithPdf(p) == p \in {"doc.pdf", "a.pdf", "b.pdf"}

\* Lengths of a document's extracted text: at the minimum, and above it.
Lens == {min_text_len, min_text_len + 1}

Range(s) == {s[i] : i \in 1..Len(s)}

RECURSIVE SeqsUpTo(_, _)
SeqsUpTo(S, n) ==
    IF n = 0 THEN {<<>>}
    ELSE LET shorter == SeqsUpTo(S, n - 1)
         IN  shorter \cup {Append(s, x) : s \in {t \in shorter : Len(t) = n - 1}, x \in S}

VARIABLES
    kind,           \* "url": Scraper.start_scraper, "pdf": Pdf.start_scraper_pdf
    allow_db,       \* config.allow_database_connection
    corpus,         \* urls_to_scrap rows / os.listdir(folder_path), in order
    content,        \* per provenance of the corpus: the length of its text
    run,            \* which run of the process this is
    pc,             \* position in start_scraper / start_scraper_pdf
    idx,            \* loop position (1-based), 0 before the loop
    visited_mem,    \* visited_urls / self.visited_pdfs (the in-memory frame)
    visited_file,   \* rows of visited_urls.csv / visited_pdfs.csv on disk
    database,       \* documents in the collection: [source, len] -> count
    db_open,        \* a MongoClient is open
    scraped_count,
    result,         \* len(result) / len(text) of the item in hand, 0 between items
    status,         \* per item of this run: how it ended
    ev,             \* per item of this run: what was done for it
    seen_visited,   \* items whose provenance was in the ledger when reached
    fetch_error,    \* items whose fetch ended in an error response
    handed,         \* <<run, provenance>> passed to append_to_database
    first_clean,    \* the first run returned and no item of it ended Failed
    returned        \* "none", "value" (returned a count) or "raised"

pipeVars == <<kind, allow_db, corpus, content, run, pc, idx, visited_mem, visited_file,
              database, db_open, scraped_count, result, status, ev,
              seen_visited, fetch_error, handed, first_clean, returned>>

\* classify_document
VARIABLES
    c_pc,           \* "off", "call", "llm", "returned", "raised"
    c_doc,          \* the document: [url, title, body]
    c_result,       \* the label classify_document returned
    llm_calls,      \* calls of classify_document_with_LLM
    llm_args,       \* [text, title] of the last such call
    llm_resp        \* what the model answered

clsVars == <<c_pc, c_doc, c_result, llm_calls, llm_args, llm_resp>>

\* Pdf._get_institution_name_from_pdf
VARIABLES
    i_pc,           \* "off", "call", "done"
    i_text,         \* the text, as pieces
    i_ents,         \* doc.ents of the text
    i_end,          \* how far into the text the windows analysed so far reach
    i_out           \* what the call gave: [kind, value]

instVars == <<i_pc, i_text, i_ents, i_end, i_out>>

\* process_text.remove_special_characters
VARIABLES
    n_pc,           \* "off", "call", "once", "twice"
    n_text,         \* the text given, as characters
    n_once,         \* remove_special_characters(text)
    n_twice         \* remove_special_characters of that result

normVars == <<n_pc, n_text, n_once, n_twice>>

\* metrics.Analyzer.get_metrics
VARIABLES
    m_pc,           \* "off", "call", "done"
    m_doc,          \* self.nlp(text): [tokens, sents]
    m_scorer_calls, \* calls of textstat.gunning_fog
    m_out           \* what the call gave: [kind, metrics]

metVars == <<m_pc, m_doc, m_scorer_calls, m_out>>

auxVars == <<normVars, metVars>>

otherVars == <<clsVars, instVars, auxVars>>

vars == <<pipeVars, clsVars, instVars, auxVars>>

Items == 1..Len(corpus)

\* Scraper.start_scraper: `url in visited_urls['url'].values`;
\* Pdf.start_scraper_pdf: `pdf_name in self.visited_pdfs["filename"].values`.
IsVisited_Never(p, ledger) == FALSE
IsVisited(p, ledger) == p \in ledger

DbCount(rec) == IF rec \in DOMAIN database THEN database[rec] ELSE 0
DbInsert(rec) == [r \in DOMAIN database \cup {rec} |->
                    IF r = rec THEN DbCount(rec) + 1 ELSE database[r]]
Persisted(p) == \E rec \in DOMAIN database : rec.source = p

Note(i, e) == [ev EXCEPT ![i] = @ \cup {e}]

PipeInit ==
    /\ kind \in {"url", "pdf"}
    /\ allow_db \in BOOLEAN
    \* a frame of URLs may repeat a URL; os.listdir repeats no name
    /\ corpus \in IF kind = "url" THEN SeqsUpTo(Urls, MaxItems)
                  ELSE {s \in SeqsUpTo(Files, MaxItems) :
                          \A i, j \in 1..Len(s) : s[i] = s[j] => i = j}
    \* the corpus is fixed: a document has the same text in both runs
    /\ content \in [Range(corpus) -> Lens]
    /\ run = "first"
    /\ pc = "start"
    /\ idx = 0
    /\ visited_mem = {}
    \* The URL ledger starts absent and is built by the runs; the PDF ledger is
    \* whatever visited_pdfs.csv on disk holds.
    /\ visited_file \in IF kind = "url" THEN {{}} ELSE SUBSET Files
    /\ database = <<>>
    /\ db_open = FALSE
    /\ scraped_count = 0
    /\ result = 0
    /\ status = [i \in Items |-> "Pending"]
    /\ ev = [i \in Items |-> {}]
    /\ seen_visited = {}
    /\ fetch_error = {}
    /\ handed = {}
    /\ first_clean = FALSE
    /\ returned = "none"

ClsOff ==
    /\ c_pc = "off" /\ c_doc = <<>> /\ c_result = "" /\ llm_calls = 0
    /\ llm_args = <<>> /\ llm_resp = ""

NormOff ==
    /\ n_pc = "off" /\ n_text = <<>> /\ n_once = <<>> /\ n_twice = <<>>

MetOff ==
    /\ m_pc = "off" /\ m_doc = [tokens |-> <<>>, sents |-> <<>>]
    /\ m_scorer_calls = 0 /\ m_out = [kind |-> "off"]

AuxOff == NormOff /\ MetOff

InstOff ==
    /\ i_pc = "off" /\ i_text = <<>> /\ i_ents = <<>> /\ i_end = 0
    /\ i_out = [kind |-> "off", value |-> <<>>]

(***************************************************************************)
(* Scraper.load_visited_urls: the rows of the file, or an empty frame when *)
(* the file does not exist or cannot be read (the error is logged).        *)
(***************************************************************************)
load_visited_urls(readable) == IF readable THEN visited_file ELSE {}

(***************************************************************************)
(* What a source gives as raw text.  "empty": no text at all (an empty     *)
(* response body; a PDF with no text layer whose OCR yields nothing).      *)
(* "nobody": markup without an <article>, <main> or <body> element.        *)
(* "blank": markup whose body holds no text.  "text": the document's text. *)
(***************************************************************************)
Raws == {"empty", "nobody", "blank", "text"}

\* process_text.clean_HTML: main_content is None when the markup has no
\* article, main or body element, and main_content.find_all raises
\* AttributeError; BeautifulSoup("") has no body either.
clean_HTML(raw) ==
    CASE raw \in {"empty", "nobody"} -> "raise"
      [] raw = "blank"               -> "empty"
      [] OTHER                       -> "text"

\* process_text.clean_PDF: with an empty text batch_loader_for_LLM yields
\* nothing, `combined` is never bound and the return raises
\* UnboundLocalError; otherwise the model call raises or gives the markdown.
clean_PDF(raw, llm) ==
    IF raw = "text" /\ llm = "ok" THEN "text" ELSE "raise"

\* the text layer pymupdf reads from the bytes of a PDF
PdfTextLayer(raw) == IF raw = "text" THEN "text" ELSE "empty"

(***************************************************************************)
(* Scraper._scrape_text.  resp: session.get raised, or the response was OK *)
(* or not OK (`not response` is `not response.ok`); extracted: clean_HTML  *)
(* raised, or gave an empty or a non-empty text of length n.               *)
(***************************************************************************)
_scrape_text(resp, extracted, n) ==
    CASE resp = "raise" -> [exc |-> TRUE, len |-> 0]
      [] resp = "error" -> [exc |-> FALSE, len |-> 0]
      [] OTHER -> CASE extracted = "raise" -> [exc |-> TRUE, len |-> 0]
                    [] extracted = "empty" -> [exc |-> FALSE, len |-> 0]
                    [] OTHER -> [exc |-> FALSE, len |-> n]

(***************************************************************************)
(* Scraper._scrape_pdf.  With a response that is not OK pdf_bytes is       *)
(* unbound, pymupdf.open raises and is caught, and text stays "".  With an *)
(* empty text the OCR branch calls self.logger_tool(...), a Logger, which  *)
(* raises TypeError.  Only an OK response with extractable text returns.   *)
(***************************************************************************)
_scrape_pdf(resp, extracted, n) ==
    IF resp = "ok" /\ extracted = "text"
    THEN [exc |-> FALSE, len |-> n]
    ELSE [exc |-> TRUE, len |-> 0]

(***************************************************************************)
(* utils.package_to_json: eight required parameters.  A call that leaves   *)
(* one out raises TypeError.                                               *)
(***************************************************************************)
PackageParams == {"title", "content", "source", "institution", "timestamp",
                  "language", "type_of_document", "metrics"}
package_to_json(passed) == IF passed = PackageParams THEN "ok" ELSE "TypeError"

\* Pdf.start_scraper_pdf: package_to_json(title=, content=, source=,
\* timestamp=, language=, metrics=)
PdfPackageArgs == {"title", "content", "source", "timestamp", "language", "metrics"}

\* Scraper.start_scraper: package_to_json(*metadata), metadata the tuple
\* get_all_metadata returns: one value per parameter.
get_all_metadata == PackageParams

(***************************************************************************)
(* The except clauses.  Scraper.start_scraper catches inside the loop body *)
(* and goes on with the next row; Pdf.start_scraper_pdf catches around the *)
(* whole loop, so the loop is left.                                        *)
(***************************************************************************)
Except ==
    /\ status' = [status EXCEPT ![idx] = "Failed"]
    /\ result' = 0
    /\ IF kind = "url"
       THEN idx' = idx + 1 /\ pc' = "loop"
       ELSE idx' = idx /\ pc' = "close"

\* start of start_scraper / start_scraper_pdf, up to the loop
StartRun ==
    /\ pc = "start"
    /\ scraped_count' = 0
    /\ \E conn \in {"ok", "raise"}, readable \in BOOLEAN, folder_exists \in BOOLEAN :
         IF conn = "raise"
         THEN \* connect_to_database re-raises ConnectionFailure
              /\ returned' = "raised" /\ pc' = "done"
              /\ UNCHANGED <<db_open, visited_mem, idx>>
         ELSE /\ db_open' = TRUE
              /\ IF kind = "url"
                 THEN IF corpus = <<>>
                      THEN /\ returned' = "value" /\ pc' = "done"
                           /\ UNCHANGED <<visited_mem, idx>>
                      ELSE /\ visited_mem' = load_visited_urls(readable)
                           /\ idx' = 1 /\ pc' = "loop"
                           /\ UNCHANGED returned
                 ELSE IF corpus = <<>> /\ ~folder_exists
                      THEN /\ returned' = "value" /\ pc' = "done"
                           /\ UNCHANGED <<visited_mem, idx>>
                      ELSE \* self.visited_pdfs was loaded by Pdf.__init__
                           /\ visited_mem' = visited_file
                           /\ idx' = 1 /\ pc' = "loop"
                           /\ UNCHANGED returned
    /\ UNCHANGED <<otherVars, kind, allow_db, corpus, content, run, visited_file, database, result,
                   status, ev, seen_visited, fetch_error, handed, first_clean>>

\* the head of the loop body: the end of the batch, the suffix test, the ledger test
LoopStep ==
    /\ pc = "loop"
    /\ IF idx > Len(corpus)
       THEN /\ pc' = "close"
            /\ UNCHANGED <<idx, status, seen_visited>>
       ELSE /\ seen_visited' = IF corpus[idx] \in visited_mem
                               THEN seen_visited \cup {idx} ELSE seen_visited
            /\ IF kind = "pdf" /\ ~EndsWithPdf(corpus[idx])
               THEN /\ status' = [status EXCEPT ![idx] = "NotPdf"]
                    /\ idx' = idx + 1 /\ pc' = "loop"
               ELSE IF IsVisited(corpus[idx], visited_mem)
                    THEN /\ status' = [status EXCEPT ![idx] = "Skipped"]
                         /\ idx' = idx + 1 /\ pc' = "loop"
                    ELSE /\ pc' = "scrape"
                         /\ UNCHANGED <<idx, status>>
    /\ UNCHANGED <<otherVars, kind, allow_db, corpus, content, run, visited_mem, visited_file, database,
                   db_open, scraped_count, result, ev, fetch_error, handed,
                   first_clean, returned>>

\* Scraper.start_scraper: _scrape_pdf(url) or _scrape_text(url)
ScrapeUrl ==
    /\ pc = "scrape" /\ kind = "url"
    /\ \E resp \in {"raise", "ok", "error"}, raw \in Raws :
         LET n == content[corpus[idx]]
             r == IF EndsWithPdf(corpus[idx])
                  THEN _scrape_pdf(resp, PdfTextLayer(raw), n)
                  ELSE _scrape_text(resp, clean_HTML(raw), n)
         IN  /\ ev' = [ev EXCEPT ![idx] = @ \cup {"fetch"} \cup
                              (IF ~r.exc /\ r.len <= min_text_len THEN {"short"} ELSE {})
                              \cup (IF resp = "ok" /\ raw = "empty"
                                    THEN {"rawempty"} ELSE {})]
             /\ fetch_error' = IF resp = "error" THEN fetch_error \cup {idx}
                               ELSE fetch_error
             /\ IF r.exc
                THEN Except
                ELSE /\ result' = r.len /\ pc' = "gate"
                     /\ UNCHANGED <<idx, status>>
    /\ UNCHANGED <<otherVars, kind, allow_db, corpus, content, run, visited_mem, visited_file, database,
                   db_open, scraped_count, seen_visited, handed, first_clean,
                   returned>>

\* Pdf._get_text_from_pdf: pymupdf.open raises or gives the text layer, OCR
\* is used for an empty one (its errors give ""), then clean_PDF
GetTextFromPdf ==
    /\ pc = "scrape" /\ kind = "pdf"
    /\ \E opened \in {"raise", "ok"}, raw \in {"empty", "text"}, llm \in {"raise", "ok"} :
         IF opened = "raise" \/ clean_PDF(raw, llm) = "raise"
         THEN /\ Except
              /\ ev' = [ev EXCEPT ![idx] = @ \cup {"fetch"} \cup
                          (IF opened = "ok" /\ raw = "empty"
                           THEN {"rawempty"} ELSE {})]
         ELSE /\ result' = content[corpus[idx]] /\ pc' = "institution"
              /\ ev' = [ev EXCEPT ![idx] = @ \cup {"fetch"} \cup
                          (IF content[corpus[idx]] <= min_text_len
                           THEN {"short"} ELSE {})]
              /\ UNCHANGED <<idx, status>>
    /\ UNCHANGED <<otherVars, kind, allow_db, corpus, content, run, visited_mem, visited_file, database,
                   db_open, scraped_count, seen_visited, fetch_error, handed,
                   first_clean, returned>>

\* Pdf.start_scraper_pdf: the call of _get_institution_name_from_pdf
GetInstitution ==
    /\ pc = "institution"
    /\ \E out \in {"raise", "value"} :
         \* "raise": the IndexError of check_if_full_name; nothing catches it
         \* before the except clause of start_scraper_pdf
         IF out = "raise"
         THEN Except /\ ev' = Note(idx, "inst_fail")
         ELSE /\ pc' = "package" /\ ev' = Note(idx, "enriched")
              /\ UNCHANGED <<idx, status, result>>
    /\ UNCHANGED <<otherVars, kind, allow_db, corpus, content, run, visited_mem, visited_file, database,
                   db_open, scraped_count, seen_visited, fetch_error,
                   handed, first_clean, returned>>

\* Pdf.start_scraper_pdf: get_timestamp, package_to_json, dump_json
PackagePdf ==
    /\ pc = "package"
    /\ IF package_to_json(PdfPackageArgs) = "ok"
       THEN /\ ev' = Note(idx, "emit")
            /\ pc' = IF allow_db THEN "persist" ELSE "mark"
            /\ UNCHANGED <<idx, status, result>>
       ELSE Except /\ UNCHANGED ev
    /\ UNCHANGED <<otherVars, kind, allow_db, corpus, content, run, visited_mem, visited_file, database,
                   db_open, scraped_count, seen_visited, fetch_error, handed,
                   first_clean, returned>>

\* Scraper.start_scraper: `if len(result) > self.config.min_text_len`
LongEnough(n) == n > min_text_len

Gate ==
    /\ pc = "gate"
    /\ pc' = IF LongEnough(result) THEN "metadata" ELSE "mark"
    /\ UNCHANGED <<otherVars, kind, allow_db, corpus, content, run, idx, visited_mem, visited_file,
                   database, db_open, scraped_count, result, status, ev,
                   seen_visited, fetch_error, handed, first_clean, returned>>

\* Scraper.start_scraper: get_all_metadata, package_to_json, dump_json, the count
Metadata ==
    /\ pc = "metadata"
    /\ \E out \in {"raise", "value"} :
         IF out = "raise" \/ package_to_json(get_all_metadata) # "ok"
         THEN Except /\ UNCHANGED <<ev, scraped_count>>
         ELSE /\ ev' = [ev EXCEPT ![idx] = @ \cup {"enriched", "emit", "count"}]
              /\ scraped_count' = scraped_count + 1
              /\ pc' = IF allow_db THEN "persist" ELSE "mark"
              /\ UNCHANGED <<idx, status, result>>
    /\ UNCHANGED <<otherVars, kind, allow_db, corpus, content, run, visited_mem, visited_file, database,
                   db_open, seen_visited, fetch_error, handed, first_clean,
                   returned>>

\* Database.append_to_database: insert_one, PyMongoError re-raised
Persist ==
    /\ pc = "persist"
    /\ handed' = handed \cup {<<run, corpus[idx]>>}
    /\ \E out \in {"raise", "ok"} :
         IF out = "raise"
         THEN /\ Except
              /\ ev' = Note(idx, "handed")
              /\ UNCHANGED database
         ELSE /\ database' = DbInsert([source |-> corpus[idx], len |-> result])
              /\ ev' = [ev EXCEPT ![idx] = @ \cup {"handed", "stored"}]
              /\ pc' = "mark"
              /\ UNCHANGED <<idx, status, result>>
    /\ UNCHANGED <<otherVars, kind, allow_db, corpus, content, run, visited_mem, visited_file, db_open,
                   scraped_count, seen_visited, fetch_error, first_clean,
                   returned>>

(***************************************************************************)
(* The ledger append.  Scraper: pd.concat on visited_urls, then            *)
(* append_to_visited_urls, whose to_csv error is caught and logged.  Pdf:  *)
(* append_to_visited_pdfs (concat, then to_csv, whose error propagates),   *)
(* then scraped_count += 1 and the next file.                              *)
(***************************************************************************)
Mark ==
    /\ pc = "mark"
    /\ visited_mem' = visited_mem \cup {corpus[idx]}
    /\ \E out \in {"written", "failed", "raise"} :
         \* "raise": os.makedirs raises, outside append_to_visited_urls's try
         /\ (out = "raise" => kind = "url")
         /\ visited_file' = IF out = "written" THEN visited_file \cup {corpus[idx]}
                            ELSE visited_file
         /\ ev' = [ev EXCEPT ![idx] = @ \cup
                     (IF out = "written"
                      THEN {"mem", "file"} \cup (IF kind = "pdf" THEN {"count"} ELSE {})
                      ELSE {"mem"})]
         /\ IF kind = "url"
            THEN IF out = "raise"
                 THEN Except /\ UNCHANGED scraped_count
                 ELSE /\ pc' = "sleep"
                      /\ UNCHANGED <<idx, status, scraped_count, result>>
            ELSE IF out = "written"
                 THEN /\ scraped_count' = scraped_count + 1
                      /\ status' = [status EXCEPT ![idx] = "Published"]
                      /\ idx' = idx + 1 /\ pc' = "loop"
                      /\ result' = 0
                 ELSE Except /\ UNCHANGED scraped_count
    /\ UNCHANGED <<otherVars, kind, allow_db, corpus, content, run, database, db_open,
                   seen_visited, fetch_error, handed, first_clean, returned>>

\* Scraper.start_scraper: time.sleep(self.sleep_time), the end of the try body
Sleep ==
    /\ pc = "sleep"
    /\ status' = [status EXCEPT ![idx] =
                    IF "emit" \in ev[idx] THEN "Published" ELSE "Rejected"]
    /\ ev' = Note(idx, "sleep")
    /\ idx' = idx + 1
    /\ pc' = "loop"
    /\ result' = 0
    /\ UNCHANGED <<otherVars, kind, allow_db, corpus, content, run, visited_mem, visited_file, database,
                   db_open, scraped_count, seen_visited, fetch_error, handed,
                   first_clean, returned>>

\* db.close_connection(); return scraped_count
Close ==
    /\ pc = "close"
    /\ db_open' = FALSE
    /\ returned' = "value"
    /\ pc' = "done"
    /\ UNCHANGED <<otherVars, kind, allow_db, corpus, content, run, idx, visited_mem, visited_file,
                   database, scraped_count, result, status, ev, seen_visited,
                   fetch_error, handed, first_clean>>

\* the process is killed in the middle of the first run (the second run is
\* the restart)
Crash ==
    /\ run = "first"
    /\ pc \notin {"start", "done", "crashed"}
    /\ pc' = "crashed"
    /\ UNCHANGED <<otherVars, kind, allow_db, corpus, content, run, idx, visited_mem, visited_file,
                   database, db_open, scraped_count, result, status, ev,
                   seen_visited, fetch_error, handed, first_clean, returned>>

\* the process is started again over the same corpus; the files and the
\* database are what the first run left
NextRun ==
    /\ pc \in {"done", "crashed"}
    /\ run = "first"
    /\ run' = "second"
    /\ first_clean' = (pc = "done" /\ returned = "value"
                       /\ \A i \in Items : status[i] \notin {"Failed", "Pending"})
    /\ pc' = "start"
    /\ idx' = 0
    /\ visited_mem' = {}
    /\ db_open' = FALSE
    /\ scraped_count' = 0
    /\ result' = 0
    /\ status' = [i \in Items |-> "Pending"]
    /\ ev' = [i \in Items |-> {}]
    /\ seen_visited' = {}
    /\ fetch_error' = {}
    /\ returned' = "none"
    /\ UNCHANGED <<otherVars, kind, allow_db, corpus, content, visited_file, database, handed>>

Init == PipeInit /\ ClsOff /\ InstOff /\ AuxOff

Next ==
    \/ StartRun
    \/ LoopStep
    \/ ScrapeUrl
    \/ GetTextFromPdf
    \/ GetInstitution
    \/ PackagePdf
    \/ Gate
    \/ Metadata
    \/ Persist
    \/ Mark
    \/ Sleep
    \/ Close
    \/ Crash
    \/ NextRun

Spec == Init /\ [][Next]_vars
(***************************************************************************)
(* classify_document and classify_document_with_LLM (process_text.py).     *)
(* A URL is the sequence of the words it is made of; `value in url` is the *)
(* occurrence of the word in it.                                           *)
(***************************************************************************)
Labels == {"Instruction", "Article", "Statute", "Forms"}

UrlWords == {"artykul", "instrukcje", "regulamin", "uchwala", "formularz", "put"}
Titles == {"title-1", "title-2"}
\* a text is the sequence of its words
Bodies == {<<"tresc">>, <<"inna", "tresc">>}

\* the key: value pairs of the dict display `keywords`, as written
KeywordPairs ==
    << [key |-> "Article", value |-> "artykul"],
       [key |-> "Instruction", value |-> "instrukcje"],
       [key |-> "Statute", value |-> "regulamin"],
       [key |-> "Statute", value |-> "uchwala"],
       [key |-> "Forms", value |-> "formularz"] >>

\* A dict display evaluates its pairs left to right; a repeated key keeps its
\* place and takes the later value.
RECURSIVE DictDisplay(_, _)
DictDisplay(pairs, acc) ==
    IF pairs = <<>> THEN acc
    ELSE LET kv == Head(pairs)
             at == {i \in 1..Len(acc) : acc[i].key = kv.key}
         IN  DictDisplay(Tail(pairs),
                         IF at = {} THEN Append(acc, kv)
                         ELSE [i \in 1..Len(acc) |-> IF i \in at THEN kv ELSE acc[i]])

keywords == DictDisplay(KeywordPairs, <<>>)

\* `for key, value in keywords.items(): if value in url: return key`
KeywordMatches(url) == {i \in 1..Len(keywords) : keywords[i].value \in Range(url)}
FirstKeyword(url) ==
    keywords[CHOOSE i \in KeywordMatches(url) : \A j \in KeywordMatches(url) : i <= j].key

\* classify_document_with_LLM(text, title, api_key), called as
\* classify_document_with_LLM(url, title, api)
LLMCallArgs(url, title) == [text |-> url, title |-> title]

ClsInit ==
    /\ c_pc = "call"
    /\ c_doc \in [url : SeqsUpTo(UrlWords, MaxUrlWords) \ {<<>>},
                  title : Titles, body : Bodies]
    /\ c_result = ""
    /\ llm_calls = 0
    /\ llm_args = <<>>
    /\ llm_resp = ""

\* classify_document(url, title, api), up to its return or its call of the model
ClassifyDocument ==
    /\ c_pc = "call"
    /\ IF KeywordMatches(c_doc.url) # {}
       THEN /\ c_result' = FirstKeyword(c_doc.url)
            /\ c_pc' = "returned"
            /\ UNCHANGED <<llm_calls, llm_args>>
       ELSE /\ llm_calls' = llm_calls + 1
            /\ llm_args' = LLMCallArgs(c_doc.url, c_doc.title)
            /\ c_pc' = "llm"
            /\ UNCHANGED c_result
    /\ UNCHANGED <<c_doc, llm_resp, pipeVars, instVars, auxVars>>

\* classify_document_with_LLM: the parsed answer is a DocumentClassificationResult,
\* whose field is one of the four labels; any other answer, or a failed request,
\* raises in client.beta.chat.completions.parse.
LLMAnswer ==
    /\ c_pc = "llm"
    /\ \E resp \in Labels \cup {"Other", "failure"} :
         /\ llm_resp' = resp
         /\ IF resp \in Labels
            THEN c_result' = resp /\ c_pc' = "returned"
            ELSE c_pc' = "raised" /\ UNCHANGED c_result
    /\ UNCHANGED <<c_doc, llm_calls, llm_args, pipeVars, instVars, auxVars>>

PipeOff ==
    /\ kind = "url" /\ allow_db = FALSE /\ corpus = <<>> /\ content = <<>>
    /\ run = "first" /\ pc = "off" /\ idx = 0 /\ visited_mem = {}
    /\ visited_file = {} /\ database = <<>> /\ db_open = FALSE
    /\ scraped_count = 0 /\ result = 0 /\ status = <<>> /\ ev = <<>>
    /\ seen_visited = {} /\ fetch_error = {} /\ handed = {}
    /\ first_clean = FALSE /\ returned = "none"

InitClassify == ClsInit /\ PipeOff /\ InstOff /\ AuxOff

NextClassify ==
    \/ ClassifyDocument
    \/ LLMAnswer

SpecClassify == InitClassify /\ [][NextClassify]_vars

(***************************************************************************)
(* Properties of classify_document (specification SpecClassify).           *)
(***************************************************************************)
ClsEnded == c_pc \in {"returned", "raised"}
\* the words of the table as it is written in the source
TableWords == {KeywordPairs[i].value : i \in 1..Len(KeywordPairs)}

\* C8: a URL that contains "regulamin" and no other word of the table is
\* classified 'Statute' and the model-backed classifier is not called.
C8_RegulaminIsStatute ==
    ("regulamin" \in Range(c_doc.url)
     /\ Range(c_doc.url) \cap TableWords = {"regulamin"}) =>
        /\ llm_calls = 0
        /\ c_pc # "raised"
        /\ c_pc = "returned" => c_result = "Statute"

\* C9: for a URL with no word of the table the model-backed classifier is
\* called exactly once, with the document's title and body; its label, one of
\* the four, is returned, and an answer outside the four is raised as an error.
C9_FallbackToModel ==
    (ClsEnded /\ Range(c_doc.url) \cap TableWords = {}) =>
        /\ llm_calls = 1
        /\ llm_args = [text |-> c_doc.body, title |-> c_doc.title]
        /\ c_pc = "returned" => c_result = llm_resp /\ c_result \in Labels
        /\ llm_resp \notin Labels => c_pc = "raised"

(***************************************************************************)
(* Properties of the two pipelines (specification Spec).                   *)
(***************************************************************************)
Finished(i) == status[i] # "Pending"
PersistedCount(p) ==
    LET recs == {rec \in DOMAIN database : rec.source = p}
    IN  IF recs = {} THEN 0
        ELSE IF Cardinality(recs) = 1 THEN database[CHOOSE rec \in recs : TRUE]
        ELSE 2

\* C1: an item whose provenance is in the visited ledger when the loop reaches
\* it is skipped: nothing is fetched, emitted, handed to the database, written
\* to the ledger or counted for it.
C1_VisitedIsSkipped ==
    \A i \in Items :
        i \in seen_visited => status[i] \in {"Skipped", "NotPdf"} /\ ev[i] = {}

\* C1 witness: in the second URL run an item is skipped whose record the first
\* run stored, and the run has returned.
C1_Witness ==
    /\ kind = "url" /\ run = "second" /\ pc = "done"
    /\ \E i \in Items :
         /\ i \in seen_visited /\ status[i] = "Skipped"
         /\ PersistedCount(corpus[i]) = 1

\* C2: after a first run that returned with no item Failed, the second run
\* over the same corpus hands no record to the database, and no record of the
\* corpus is stored more than once.
C2_Idempotent ==
    (run = "second" /\ first_clean) =>
        /\ \A p \in Prov : <<"second", p>> \notin handed
        /\ \A p \in Prov : PersistedCount(p) <= 1

\* C3: a finished item's provenance was written to the ledger in this run if
\* and only if the item ended Published or Rejected, and a ledger write comes
\* only after the item's fetch and, when a record goes to the database, after
\* the insert.
C3_LedgerIffTerminal ==
    \A i \in Items :
        /\ Finished(i) =>
             ("file" \in ev[i] <=> status[i] \in {"Published", "Rejected"})
        /\ "file" \in ev[i] =>
             /\ "fetch" \in ev[i]
             /\ ("handed" \in ev[i] => "stored" \in ev[i])

\* C4: when an item of the batch failed and the call has ended, the call
\* returned a count (it did not raise) and every later item that is not in the
\* ledger was processed.
C4_FailureDoesNotAbort ==
    (pc = "done" /\ \E i \in Items : status[i] = "Failed") =>
        /\ returned = "value"
        /\ \A i, j \in Items :
             (status[i] = "Failed" /\ i < j /\ corpus[j] \notin visited_mem
              /\ (kind = "pdf" => EndsWithPdf(corpus[j])))
             => Finished(j)

\* C5: every stored or emitted record is longer than min_text_len, and a
\* finished item whose content is not longer than min_text_len ended Rejected,
\* with its provenance marked visited and no record stored for it.
C5_LengthGate ==
    /\ \A rec \in DOMAIN database : rec.len > min_text_len
    /\ \A i \in Items :
         /\ "emit" \in ev[i] => "short" \notin ev[i]
         /\ (Finished(i) /\ "short" \in ev[i]) =>
              /\ status[i] = "Rejected"
              /\ corpus[i] \in visited_mem
              /\ "stored" \notin ev[i]

\* C6: when the process is started again, after a run that ended or was
\* killed, the ledger file holds the provenance of every stored record.
C6_RestartConsistent ==
    (run = "second" /\ pc = "start") =>
        \A p \in Prov : PersistedCount(p) > 0 => p \in visited_file

\* C7: an item whose fetch ended in an error response ends Failed and its
\* provenance is not added to the ledger.
C7_FetchErrorFails ==
    \A i \in Items :
        (i \in fetch_error /\ Finished(i)) =>
            /\ status[i] = "Failed"
            /\ "mem" \notin ev[i]
            /\ "file" \notin ev[i]

\* C11: for an item that completed enrichment the record was assembled and
\* emitted: a finished item that was enriched has its record, and did not
\* end Failed without one.
C11_RecordAssembled ==
    \A i \in Items :
        (Finished(i) /\ "enriched" \in ev[i]) => "emit" \in ev[i]

\* C14: an item whose raw text was empty ends Rejected, with its provenance
\* marked visited, and not Failed.
C14_EmptyTextRejected ==
    \A i \in Items :
        (Finished(i) /\ "rawempty" \in ev[i]) =>
            /\ status[i] = "Rejected"
            /\ corpus[i] \in visited_mem

\* C15: an item for which the institution extractor failed does not end
\* Failed: it goes on to its record and to the ledger.
C15_ExtractorFailureDegrades ==
    \A i \in Items :
        (Finished(i) /\ "inst_fail" \in ev[i]) =>
            /\ status[i] # "Failed"
            /\ "emit" \in ev[i]
            /\ corpus[i] \in visited_mem

\* C16: in Scraper.start_scraper, when an item is fetched, the pacing delay
\* has elapsed after every item fetched before it, however that item ended.
C16_DelayBetweenFetches ==
    kind = "url" =>
        \A i, j \in Items :
            (i < j /\ "fetch" \in ev[i] /\ "fetch" \in ev[j]) => "sleep" \in ev[i]

\* C20: the integer Scraper.start_scraper returns is the number of items
\* of the run that ended Published.
C20_CountIsPublished ==
    (kind = "url" /\ pc = "done" /\ returned = "value") =>
        scraped_count = Cardinality({i \in Items : status[i] = "Published"})

\* C21: when start_scraper or start_scraper_pdf has returned, the database
\* connection it opened is closed.
C21_ConnectionClosedOnReturn ==
    (pc = "done" /\ returned = "value") => ~db_open

(***************************************************************************)
(* Pdf._get_institution_name_from_pdf.                                     *)
(*                                                                         *)
(* The text is a sequence of pieces joined by single blanks (the text as   *)
(* it is after pdf.py:90-91).  A piece is a word, or a run of words that   *)
(* holds no keyword and no entity:                                         *)
(*   "K"  a word of regex_school_type          ("liceum")                  *)
(*   "N"  a numeral of regex_school_number     ("III")                     *)
(*   "w"  the preposition of regex_place       ("w", "we")                 *)
(*   "S"  the word of regex_combined_1         ("STATUT")                  *)
(*   "P"  a word the tagger may label placeName                            *)
(*   "G"  a run of other words, Proximity - 3 characters long              *)
(*   "L"  a run of other words, WindowChars characters long                *)
(* A word has no effect where its regex does not look at it, so "N", "w"   *)
(* and "S" also stand for the other words of a text.                       *)
(***************************************************************************)
\* a text holds at most MaxPieces pieces
MaxPieces == 4

\* pdf.py:101 max(place_index-90,0) and pdf.py:110 place_index-org_ind<90
Proximity == 90
\* pdf.py:59 start_ind,end_ind = 0,1000
WindowChars == 1000

Pieces == {"K", "N", "w", "S", "P", "G", "L"}

\* The texts: up to MaxPieces pieces, a run "L" only as the first one (what
\* follows it lies beyond the first 1000 characters).
Texts ==
    SeqsUpTo(Pieces \ {"L"}, MaxPieces)
    \cup {<<"L">> \o t : t \in SeqsUpTo(Pieces \ {"L"}, MaxPieces - 1)}

Width(p) ==
    CASE p = "G" -> Proximity - 3
      [] p = "L" -> WindowChars
      [] OTHER   -> 1

Max(a, b) == IF a >= b THEN a ELSE b
Min(a, b) == IF a <= b THEN a ELSE b

\* ent.start_char of a span that starts with piece i of text t
RECURSIVE StartChar(_, _)
StartChar(t, i) ==
    IF i <= 1 THEN 0 ELSE StartChar(t, i - 1) + Width(t[i - 1]) + 1

\* the offset just after piece i: start_char + len(ent.text)
EndChar(t, i) == StartChar(t, i) + Width(t[i])

\* len(text)
TextLen(t) == IF t = <<>> THEN 0 ELSE EndChar(t, Len(t))

\* text_org[start_ind:end_ind] of the first pass of the while loop
\* (start_ind, end_ind = 0, 1000): the pieces that lie inside it.  A run cut
\* by the end of the window leaves words that are no keyword and no entity.
WindowPieces(t) ==
    LET inside == {i \in 1..Len(t) : EndChar(t, i) <= WindowChars}
    IN  SubSeq(t, 1, Cardinality(inside))

\* regex_place = .*{regex_school_type}.*(we?\s\w+)$ searched in the text of
\* the pieces i..j
RegexPlace(t, i, j) ==
    /\ j - i >= 2
    /\ t[j - 1] = "w"
    /\ \E k \in i..(j - 2) : t[k] = "K"

\* what self.nlp(place) gives for the phrase "w <word>": no entity at all,
\* a first entity labelled placeName, or a first entity with another label
PhraseEnts == {"empty", "placeName", "other"}

\* doc.ents of self.nlp(text_stripped) from piece i on: in document order
\* and not overlapping.  A placeName is one "P" piece; an orgName is a span
\* of words.  Entities with other labels are not looked at by the code.
\* chk is what the tagger gives for the trailing phrase of an orgName whose
\* text matches regex_place.
RECURSIVE EntsFrom(_, _)
EntsFrom(t, i) ==
    IF i > Len(t) THEN {<<>>}
    ELSE LET rest(j) == EntsFrom(t, j + 1)
             ends == {j \in i..Len(t) : \A k \in i..j : t[k] \notin {"G", "L"}}
             chks(j) == IF RegexPlace(t, i, j) THEN PhraseEnts ELSE {"n/a"}
         IN  rest(i)
             \cup (IF t[i] = "P"
                   THEN {<<[label |-> "placeName", first |-> i, last |-> i,
                            chk |-> "n/a"]>> \o r : r \in rest(i)}
                   ELSE {})
             \cup UNION {{<<[label |-> "orgName", first |-> i, last |-> j,
                             chk |-> c]>> \o r : r \in rest(j), c \in chks(j)}
                         : j \in ends}

\* check_if_full_name(ent.text): "True", "False", or "IndexError" when
\* doc_place.ents is empty and doc_place.ents[0] is evaluated
check_if_full_name(t, ent) ==
    IF RegexPlace(t, ent.first, ent.last)
    THEN CASE ent.chk = "empty"     -> "IndexError"
           [] ent.chk = "placeName" -> "True"
           [] OTHER                 -> "False"
    ELSE "False"

\* None of Python
None == 0

\* if orgs: if orgs[-1][2] == None: orgs.pop()
PopOpen(orgs) ==
    IF orgs # <<>> /\ orgs[Len(orgs)].end = None
    THEN SubSeq(orgs, 1, Len(orgs) - 1)
    ELSE orgs

\* the loop over doc.ents from entity k on, with the lists built so far.
\* A text returned is given as the span <<first piece, last piece>>.
RECURSIVE EntityLoop(_, _, _, _, _)
EntityLoop(t, ents, k, places, orgs) ==
    IF k > Len(ents)
    THEN [kind |-> "lists", places |-> places, orgs |-> PopOpen(orgs)]
    ELSE LET ent == ents[k] IN
         IF ent.label = "placeName"
         THEN LET place_index == StartChar(t, ent.first)
                  start_index == Max(place_index - Proximity, 0)
                  near == /\ orgs # <<>>
                          /\ place_index - orgs[Len(orgs)].org_index < Proximity
              IN  EntityLoop(t, ents, k + 1,
                      Append(places, [tok |-> ent.first,
                                      start_index |-> start_index,
                                      place_index |-> place_index]),
                      IF near
                      THEN [orgs EXCEPT ![Len(orgs)] =
                               [@ EXCEPT !.end = EndChar(t, ent.last),
                                         !.place = ent.first]]
                      ELSE orgs)
         ELSE LET full == check_if_full_name(t, ent) IN
              CASE full = "IndexError" ->
                     [kind |-> "raise", value |-> <<>>]
                [] full = "True" ->
                     [kind |-> "return", value |-> <<ent.first, ent.last>>]
                [] OTHER ->
                     EntityLoop(t, ents, k + 1, places,
                         Append(PopOpen(orgs),
                                [first |-> ent.first,
                                 org_index |-> StartChar(t, ent.first),
                                 end |-> None, place |-> None]))

\* re.search(rf"{regex_school_type}.*{place_name}", text_stripped[org_start:org_end])
OrgRegex(t, org) == \E k \in org.first..(org.place - 1) : t[k] = "K"

\* the indexes of the entries of orgs whose span matches
OrgMatches(t, orgs) == {n \in 1..Len(orgs) : OrgRegex(t, orgs[n])}

\* the "K" pieces inside text_stripped[start_ind:start_char_place+len(place_name)]
WindowKeywords(t, place) ==
    {k \in 1..(place.tok - 1) : t[k] = "K" /\ StartChar(t, k) >= place.start_index}

\* match_2.group(): from the leftmost keyword of the window, with the numeral
\* right before it when the window holds one, to the place name
Match2(t, place) ==
    LET k == CHOOSE k \in WindowKeywords(t, place) :
                 \A m \in WindowKeywords(t, place) : k <= m
        numbered == /\ k > 1
                    /\ t[k - 1] = "N"
                    /\ StartChar(t, k - 1) >= place.start_index
    IN  <<IF numbered THEN k - 1 ELSE k, place.tok>>

\* regex_combined_1 matches: the window holds "STATUT" and a keyword after it
Match1Keywords(t, place) ==
    {k \in WindowKeywords(t, place) :
        \E s \in 1..(k - 1) : t[s] = "S" /\ StartChar(t, s) >= place.start_index}

\* match_1.group(1): the greedy .* leaves the last such keyword to the group
Match1(t, place) ==
    LET k == CHOOSE k \in Match1Keywords(t, place) :
                 \A m \in Match1Keywords(t, place) : k >= m
    IN  <<k, place.tok>>

\* a scan in which the statute variant has priority over the plain one
RECURSIVE PlaceLoop_StatuteFirst(_, _, _, _)
PlaceLoop_StatuteFirst(t, places, n, institution_name_statut) ==
    IF n > Len(places)
    THEN [kind |-> "return", value |-> institution_name_statut]
    ELSE IF Match1Keywords(t, places[n]) # {}
         THEN [kind |-> "return", value |-> Match1(t, places[n])]
         ELSE IF WindowKeywords(t, places[n]) # {}
              THEN [kind |-> "return", value |-> Match2(t, places[n])]
              ELSE PlaceLoop_StatuteFirst(t, places, n + 1, institution_name_statut)

\* the loop over places from entry n on, and the return that follows it.
\* `institution_name_statut if not None else institution_name_org` is
\* institution_name_statut, as `not None` is True.
RECURSIVE PlaceLoop(_, _, _, _)
PlaceLoop(t, places, n, institution_name_statut) ==
    IF n > Len(places)
    THEN [kind |-> "return", value |-> institution_name_statut]
    ELSE LET statut == IF Match1Keywords(t, places[n]) # {}
                       THEN Match1(t, places[n])
                       ELSE institution_name_statut
         IN  IF WindowKeywords(t, places[n]) # {}
             THEN [kind |-> "return", value |-> Match2(t, places[n])]
             ELSE PlaceLoop(t, places, n + 1, statut)

\* one pass of the body of the while loop over the window text t
WindowPass(t, ents) ==
    LET scan == EntityLoop(t, ents, 1, <<>>, <<>>)
    IN  IF scan.kind # "lists" THEN scan
        ELSE IF OrgMatches(t, scan.orgs) # {}
             THEN LET n == CHOOSE n \in OrgMatches(t, scan.orgs) :
                               \A m \in OrgMatches(t, scan.orgs) : n <= m
                  IN  [kind |-> "return",
                       value |-> <<scan.orgs[n].first, scan.orgs[n].place>>]
             ELSE PlaceLoop(t, scan.places, 1, <<>>)

InstInit ==
    /\ i_text \in Texts
    /\ \E text \in {WindowPieces(i_text)} : i_ents \in EntsFrom(text, 1)
    /\ i_pc = "call"
    /\ i_end = 0
    /\ i_out = [kind |-> "off", value |-> <<>>]

\* while start_ind<text_len, first test (start_ind = 0), and the body: every
\* path through the body ends in a return or a raise, the last return
\* (pdf.py:153) being inside the loop.
ExtractWindow ==
    /\ i_pc = "call"
    /\ 0 < TextLen(i_text)
    /\ \E text \in {WindowPieces(i_text)} : i_out' = WindowPass(text, i_ents)
    \* text_org[0:1000]
    /\ i_end' = Min(WindowChars, TextLen(i_text))
    /\ i_pc' = "done"
    /\ UNCHANGED <<i_text, i_ents, pipeVars, clsVars, auxVars>>

\* while start_ind<text_len is false at once: the function ends without a
\* return statement and gives None
ExtractEmpty ==
    /\ i_pc = "call"
    /\ ~(0 < TextLen(i_text))
    /\ i_out' = [kind |-> "return", value |-> <<>>]
    /\ i_pc' = "done"
    /\ UNCHANGED <<i_text, i_ents, i_end, pipeVars, clsVars, auxVars>>

InitInst == InstInit /\ PipeOff /\ ClsOff /\ AuxOff

NextInst ==
    \/ ExtractWindow
    \/ ExtractEmpty

SpecInst == InitInst /\ [][NextInst]_vars

\* The scan over places (pdf.py:135-153) reads text_stripped and places, and
\* nothing of orgs: for it the texts are drawn in which the tagger labelled
\* at most one orgName.
InitScan ==
    /\ InitInst
    /\ Cardinality({a \in 1..Len(i_ents) : i_ents[a].label = "orgName"}) <= 1

SpecScan == InitScan /\ [][NextInst]_vars

(***************************************************************************)
(* Properties of _get_institution_name_from_pdf (specification SpecInst).  *)
(***************************************************************************)
IsOrg(e) == e.label = "orgName"
IsPlace(e) == e.label = "placeName"
WinText == WindowPieces(i_text)

\* the orgName entity a and the placeName entity b of i_ents are a closed
\* pairing: b follows a with no orgName between them, starts less than
\* Proximity characters after the start of a, and is the last such placeName
Near(a, b) ==
    /\ a < b /\ IsOrg(i_ents[a]) /\ IsPlace(i_ents[b])
    /\ \A c \in (a + 1)..(b - 1) : ~IsOrg(i_ents[c])
    /\ StartChar(WinText, i_ents[b].first) - StartChar(WinText, i_ents[a].first)
           < Proximity
ClosedPairing(a, b) ==
    /\ Near(a, b)
    /\ \A c \in (b + 1)..Len(i_ents) : ~Near(a, c)

\* the span from the start of the orgName to the end of the placeName holds
\* an institution-type keyword before the place name
PairingMatches(a, b) ==
    /\ ClosedPairing(a, b)
    /\ \E k \in i_ents[a].first..(i_ents[b].first - 1) : WinText[k] = "K"

\* an orgName entity passes the full-name check
PassesFullName(a) ==
    /\ IsOrg(i_ents[a])
    /\ RegexPlace(WinText, i_ents[a].first, i_ents[a].last)
    /\ i_ents[a].chk = "placeName"

\* C10: when a closed ORG+PLACE pairing matches the institution-type regex
\* and no ORG entity passes the full-name check, the function returns the
\* text from the ORG start to the PLACE end of the first such pairing in
\* document order, whatever place-anchored matches the text also holds.
C10_OrgAnchoredPrecedence ==
    (/\ i_pc = "done"
     /\ \E a, b \in 1..Len(i_ents) : PairingMatches(a, b)
     /\ \A a \in 1..Len(i_ents) : ~PassesFullName(a)) =>
        \E a, b \in 1..Len(i_ents) :
            /\ PairingMatches(a, b)
            /\ \A c, d \in 1..Len(i_ents) : PairingMatches(c, d) => a <= c
            /\ i_out = [kind |-> "return",
                        value |-> <<i_ents[a].first, i_ents[b].first>>]

\* the call reached the scan over places: no orgName passed or broke the
\* full-name check and no entry of orgs matched
ReachedPlaceScan ==
    /\ i_pc = "done"
    /\ 0 < TextLen(i_text)
    /\ \A a \in 1..Len(i_ents) :
           IsOrg(i_ents[a]) => check_if_full_name(WinText, i_ents[a]) = "False"
    /\ ~\E a, b \in 1..Len(i_ents) : PairingMatches(a, b)

\* the placeName entities of i_ents, as indexes into i_ents
PlaceEnts == {b \in 1..Len(i_ents) : IsPlace(i_ents[b])}

\* the keywords that lie wholly inside the window of Proximity characters
\* before the placeName entity b
KeywordsBefore(b) ==
    {k \in 1..(i_ents[b].first - 1) :
        /\ WinText[k] = "K"
        /\ StartChar(WinText, k) >=
               Max(StartChar(WinText, i_ents[b].first) - Proximity, 0)}

\* the plain variant matches the window of b
PlainMatch(b) == b \in PlaceEnts /\ KeywordsBefore(b) # {}

\* the statute variant matches the window of b: "STATUT" inside the window,
\* before a keyword
StatuteMatch(b) ==
    /\ b \in PlaceEnts
    /\ \E k \in KeywordsBefore(b) : \E q \in 1..(k - 1) :
          /\ WinText[q] = "S"
          /\ StartChar(WinText, q) >=
                 Max(StartChar(WinText, i_ents[b].first) - Proximity, 0)

\* the text of the plain match of b: from the leftmost keyword of the window
\* (with its numeral) to the place name
PlainText(b) ==
    LET k == CHOOSE k \in KeywordsBefore(b) : \A m \in KeywordsBefore(b) : k <= m
        lo == Max(StartChar(WinText, i_ents[b].first) - Proximity, 0)
    IN  <<IF k > 1 /\ WinText[k - 1] = "N" /\ StartChar(WinText, k - 1) >= lo
          THEN k - 1 ELSE k,
          i_ents[b].first>>

C19_WholeTextExamined ==
    (i_pc = "done" /\ i_out = [kind |-> "return", value |-> <<>>]) =>
        i_end >= TextLen(i_text)

(***************************************************************************)
(* process_text.remove_special_characters, with the default special_chars. *)
(*                                                                         *)
(* A text is a sequence of characters:                                     *)
(*   "a"   a character of the allow-list that is no whitespace             *)
(*   "@"   a character outside the allow-list                              *)
(*   "e"   an emoji (outside the allow-list as well)                       *)
(*   " "   a whitespace character other than the newline                   *)
(*   "\n"  the newline                                                     *)
(***************************************************************************)
\* a text holds at most MaxChars characters
MaxChars == 6

Chars == {"a", "@", "e", " ", "\n"}

\* \s of the regular expressions, and what str.strip() removes
IsSpace(c) == c \in {" ", "\n"}

\* [^A-Za-z0-9\s\.,;:\'\"\?\!\-...] does not match c
AllowListed(c) == c = "a" \/ IsSpace(c)

NotEmoji(c) == c # "e"

\* text = re.sub(special_chars, '', text)
StripSpecial(s) == SelectSeq(s, AllowListed)

\* text = emoji.replace_emoji(text, replace="")
replace_emoji(s) == SelectSeq(s, NotEmoji)

\* the end of the match of \n\s*\n that starts at the newline s[i], 0 when
\* there is none: \s* is greedy, so the match ends with the last newline of
\* the run of whitespace that s[i] is in
BlankMatchEnd(s, i) ==
    LET ends == {j \in (i + 1)..Len(s) :
                    /\ s[j] = "\n"
                    /\ \A k \in (i + 1)..(j - 1) : IsSpace(s[k])}
    IN  IF ends = {} THEN 0 ELSE CHOOSE j \in ends : \A k \in ends : k <= j

\* text = re.sub(r'\n\s*\n', '\n\n', text), from character i on: the matches
\* are taken from left to right and do not overlap
RECURSIVE CollapseFrom(_, _)
CollapseFrom(s, i) ==
    IF i > Len(s) THEN <<>>
    ELSE IF s[i] = "\n" /\ BlankMatchEnd(s, i) # 0
         THEN <<"\n", "\n">> \o CollapseFrom(s, BlankMatchEnd(s, i) + 1)
         ELSE <<s[i]>> \o CollapseFrom(s, i + 1)

CollapseBlankLines(s) == CollapseFrom(s, 1)

\* text.strip()
strip(s) ==
    LET solid == {i \in 1..Len(s) : ~IsSpace(s[i])}
    IN  IF solid = {} THEN <<>>
        ELSE SubSeq(s, CHOOSE i \in solid : \A k \in solid : i <= k,
                       CHOOSE j \in solid : \A k \in solid : k <= j)

\* the steps in another order: the blank lines collapsed before the
\* characters are removed
remove_special_characters_CollapseFirst(text) ==
    strip(replace_emoji(StripSpecial(CollapseBlankLines(text))))

remove_special_characters(text) ==
    strip(CollapseBlankLines(replace_emoji(StripSpecial(text))))

NormInit ==
    /\ n_text \in SeqsUpTo(Chars, MaxChars)
    /\ n_pc = "call"
    /\ n_once = <<>>
    /\ n_twice = <<>>

\* remove_special_characters(text)
Normalize ==
    /\ n_pc = "call"
    /\ n_once' = remove_special_characters(n_text)
    /\ n_pc' = "once"
    /\ UNCHANGED <<n_text, n_twice, metVars, pipeVars, clsVars, instVars>>

\* remove_special_characters applied to its own result
NormalizeAgain ==
    /\ n_pc = "once"
    /\ n_twice' = remove_special_characters(n_once)
    /\ n_pc' = "twice"
    /\ UNCHANGED <<n_text, n_once, metVars, pipeVars, clsVars, instVars>>

InitNorm == NormInit /\ MetOff /\ PipeOff /\ ClsOff /\ InstOff

NextNorm ==
    \/ Normalize
    \/ NormalizeAgain

SpecNorm == InitNorm /\ [][NextNorm]_vars

(***************************************************************************)
(* Properties of remove_special_characters (specification SpecNorm).       *)
(***************************************************************************)
Newlines(s) == {i \in 1..Len(s) : s[i] = "\n"}

\* C12: remove_special_characters gives a text for every text, and applied
\* to its own result it gives that result again.
C12_NormalizerIdempotent ==
    /\ n_pc \in {"once", "twice"} =>
          Len(n_once) <= Len(n_text) /\ Range(n_once) \subseteq Chars
    /\ n_pc = "twice" => n_twice = n_once

\* C12 witness: a text with a character outside the allow-list and a run of
\* blank lines was changed by the first application and left alone by the
\* second.
C12_Witness ==
    /\ n_pc = "twice"
    /\ "@" \in Range(n_text)
    /\ \E i \in 1..(Len(n_text) - 2) : {i, i + 1, i + 2} \subseteq Newlines(n_text)
    /\ \E i \in 1..(Len(n_once) - 1) : {i, i + 1} \subseteq Newlines(n_once)
    /\ n_once # n_text
    /\ n_twice = n_once

\* C17: the result holds no two consecutive blank lines, no two consecutive
\* whitespace characters inside a line, and no line that begins or ends with
\* whitespace.
C17_WhitespaceNormalForm ==
    n_pc \in {"once", "twice"} =>
        LET o == n_once
            n == Len(o)
        IN  \* no three newlines with only whitespace between them
            /\ \A i, j, k \in Newlines(o) :
                  (i < j /\ j < k) => \E q \in i..k : ~IsSpace(o[q])
            \* no two whitespace characters side by side inside a line
            /\ \A i \in 1..(n - 1) : ~(o[i] = " " /\ o[i + 1] = " ")
            \* no whitespace at either end of a line
            /\ \A i \in 1..n :
                  o[i] = " " =>
                      /\ i > 1 /\ i < n
                      /\ o[i - 1] # "\n"
                      /\ o[i + 1] # "\n"

(***************************************************************************)
(* metrics.Analyzer.get_metrics.                                           *)
(*                                                                         *)
(* doc = self.nlp(text) is a sequence of tokens and its division into      *)
(* sentences (doc.sents): every token of a doc lies in one sentence, and a *)
(* doc with no token has no sentence.                                      *)
(***************************************************************************)
\* a doc holds at most MaxTokens tokens
MaxTokens == 3

\* the tokens: a noun, a verb, an adjective, a punctuation mark, a blank
TokenKinds ==
    {[text |-> "dom",  is_punct |-> FALSE, is_space |-> FALSE, pos |-> "NOUN",  lemma |-> "dom"],
     [text |-> "ma",   is_punct |-> FALSE, is_space |-> FALSE, pos |-> "VERB",  lemma |-> "miec"],
     [text |-> "nowy", is_punct |-> FALSE, is_space |-> FALSE, pos |-> "ADJ",   lemma |-> "nowy"],
     [text |-> ".",    is_punct |-> TRUE,  is_space |-> FALSE, pos |-> "PUNCT", lemma |-> "."],
     [text |-> " ",    is_punct |-> FALSE, is_space |-> TRUE,  pos |-> "SPACE", lemma |-> " "]}

\* len(token)
TokenLen(tok) ==
    CASE tok.text = "dom"  -> 3
      [] tok.text = "ma"   -> 2
      [] tok.text = "nowy" -> 4
      [] OTHER             -> 1

\* doc.sents for n tokens: the lengths of the sentences, in order
RECURSIVE SentsOf(_)
SentsOf(n) ==
    IF n = 0 THEN {<<>>}
    ELSE UNION {{<<k>> \o r : r \in SentsOf(n - k)} : k \in 1..n}

\* what textstat.gunning_fog can give, in ten-thousandths
FogScores == {0, 84000}

RECURSIVE SumSeq(_)
SumSeq(q) == IF q = <<>> THEN 0 ELSE q[1] + SumSeq(Tail(q))

\* not token.is_punct and not token.is_space
IsWord(tok) == ~tok.is_punct /\ ~tok.is_space

\* round(num / den, 4), in ten-thousandths
Round4(num, den) == (2 * 10000 * num + den) \div (2 * den)

\* the body of get_metrics for the doc d; fog is what the scorer gives if
\* it is called.  Each division is guarded by its own denominator.
get_metrics(d, fog) ==
    LET toks == SelectSeq(d.tokens, IsWord)
        words == Len(toks)
        sentences == Len(d.sents)
        unique_words == {toks[i].lemma : i \in 1..words}
        word_chars == SumSeq([i \in 1..words |-> TokenLen(toks[i])])
        sent_tokens == SumSeq(d.sents)
        count(p) == Cardinality({i \in 1..words : toks[i].pos = p})
    IN  [kind |-> "return",
         characters |-> SumSeq([i \in 1..Len(d.tokens) |-> TokenLen(d.tokens[i])]),
         words |-> words,
         sentences |-> sentences,
         nouns |-> count("NOUN"),
         verbs |-> count("VERB"),
         adjectives |-> count("ADJ"),
         \* avg_word_length / words if words else 0
         avg_word_length |-> IF words # 0 THEN Round4(word_chars, words) ELSE 0,
         \* avg_sentence_length / sentences if sentences else 0
         avg_sentence_length |->
             IF sentences # 0 THEN Round4(sent_tokens, sentences) ELSE 0,
         \* len(unique_words) / words if words else 0
         lexical_density |->
             IF words # 0 THEN Round4(Cardinality(unique_words), words) ELSE 0,
         \* textstat.gunning_fog(text) if words > 0 else 0
         gunning_fog |-> IF words > 0 THEN fog ELSE 0]

\* the number of calls of textstat.gunning_fog in get_metrics for the doc d
ScorerCalls(d) == IF Len(SelectSeq(d.tokens, IsWord)) > 0 THEN 1 ELSE 0

MetInit ==
    /\ m_doc \in {[tokens |-> t, sents |-> q] :
                    t \in SeqsUpTo(TokenKinds, MaxTokens),
                    q \in UNION {SentsOf(n) : n \in 0..MaxTokens}}
    /\ SumSeq(m_doc.sents) = Len(m_doc.tokens)
    /\ m_pc = "call"
    /\ m_scorer_calls = 0
    /\ m_out = [kind |-> "off"]

GetMetrics ==
    /\ m_pc = "call"
    /\ \E fog \in FogScores :
         /\ (ScorerCalls(m_doc) = 0 => fog = 0)
         /\ m_out' = get_metrics(m_doc, fog)
    /\ m_scorer_calls' = m_scorer_calls + ScorerCalls(m_doc)
    /\ m_pc' = "done"
    /\ UNCHANGED <<m_doc, normVars, pipeVars, clsVars, instVars>>

InitMetrics == MetInit /\ NormOff /\ PipeOff /\ ClsOff /\ InstOff

NextMetrics == GetMetrics

SpecMetrics == InitMetrics /\ [][NextMetrics]_vars

(***************************************************************************)
(* Properties of get_metrics (specification SpecMetrics).                  *)
(***************************************************************************)
\* C13: for a doc with no word token (no token at all, or only punctuation
\* and whitespace tokens) get_metrics returns with avg_word_length,
\* avg_sentence_length, lexical_density and gunning_fog all 0 and does not
\* call the readability scorer.
C13_ZeroWordsZeroMetrics ==
    (m_pc = "done" /\ \A i \in 1..Len(m_doc.tokens) : ~IsWord(m_doc.tokens[i])) =>
        /\ m_out.kind = "return"
        /\ m_out.avg_word_length = 0
        /\ m_out.avg_sentence_length = 0
        /\ m_out.lexical_density = 0
        /\ m_out.gunning_fog = 0
        /\ m_scorer_calls = 0
====
